---------------------------- MODULE Spec2Model ----------------------------
(***************************************************************************)
(* Model of app.py (Viva Q&A review, a Streamlit script).                  *)
(*                                                                         *)
(* One state = what the browser shows (screen) plus st.session_state.      *)
(* A user event (multiselect change, button click) queues one script run;  *)
(* ScriptRun is one complete pass of main(), or the pass up to the         *)
(* st.rerun() / uncaught exception that ends it.                           *)
(***************************************************************************)
EXTENDS Integers, Sequences, FiniteSets, TLC

VARIABLES
    viva_file,      \* contents of data/viva.csv (VIVA_DATA)
    glossary_file,  \* contents of data/glossary.csv (GLOSSARY_DATA)
    session_state,  \* st.session_state: a function on the keys that are set
    clicked,        \* the button whose click triggered the pending run
    pc,             \* "run": a script run is pending, "idle": waiting for the user
    screen,         \* what the last script pass put on the page
    last_event      \* the user event behind the current run: "load", "select",
                    \* "deselect" or the button clicked

vars == <<viva_file, glossary_file, session_state, clicked, pc, screen, last_event>>

-----------------------------------------------------------------------------
(* Bounds of the model *)

MaxRows == 3        \* data rows in viva.csv
MaxQ == 2           \* question numbers are 1..MaxQ

Sections == {"SectionA", "SectionB"}

-----------------------------------------------------------------------------
(* Sequence helpers *)

Range(s) == {s[k] : k \in DOMAIN s}

Min(a, b) == IF a < b THEN a ELSE b

Max(a, b) == IF a > b THEN a ELSE b

\* Series.unique(): distinct values in order of first appearance
RECURSIVE unique(_)
unique(s) ==
    IF s = <<>> THEN <<>>
    ELSE LET init == unique(SubSeq(s, 1, Len(s) - 1))
             x == s[Len(s)]
         IN IF x \in Range(init) THEN init ELSE Append(init, x)

\* position of x in s (x occurs in s)
IndexOf(s, x) == CHOOSE k \in DOMAIN s : s[k] = x /\ \A j \in 1..(k - 1) : s[j] # x

Remove(s, x) == SelectSeq(s, LAMBDA y : y # x)

-----------------------------------------------------------------------------
(* The input files.  A file is [readable, header, body]; a body row is the *)
(* tuple of its cells.  Question and Answer cells hold the row's number in *)
(* the file, standing for texts that differ from row to row.               *)

NamedHeader == <<"Section", "Question Number", "Question", "Answer">>
FourHeader == <<"c1", "c2", "c3", "c4">>
ThreeHeader == <<"c1", "c2", "c3">>
TwoHeader == <<"c1", "c2">>

SeqsUpTo(S, n) == UNION {[1..k -> S] : k \in 0..n}

\* four-column bodies of at most n rows: <<section, number, question, answer>>
FourBodies(n) ==
    {[k \in DOMAIN b |-> <<b[k][1], b[k][2], k, k>>] :
        b \in SeqsUpTo(Sections \X (1..MaxQ), n)}

ThreeBodies ==
    {[k \in DOMAIN b |-> <<b[k], k, k>>] : b \in SeqsUpTo(1..MaxQ, MaxRows)}

TwoBodies == {[k \in 1..n |-> <<k, k>>] : n \in 0..MaxRows}

\* a glossary with one term
GlossaryBodies == {<<<<1, 1>>>>}

Unreadable == [readable |-> FALSE, header |-> <<>>, body |-> <<>>]

File(h, b) == [readable |-> TRUE, header |-> h, body |-> b]

-----------------------------------------------------------------------------
(* pandas *)

None == [kind |-> "None"]

\* pd.read_csv: a DataFrame, or an exception on a missing/undecodable file
read_csv(file) ==
    IF file.readable
    THEN [kind |-> "df", columns |-> file.header, data |-> file.body]
    ELSE [kind |-> "raise"]

HasColumn(df, c) == c \in Range(df.columns)

\* df[c]: the column as a sequence (c is a column of df)
Column(df, c) ==
    LET p == IndexOf(df.columns, c) IN [k \in DOMAIN df.data |-> df.data[k][p]]

\* df.empty
empty(df) == Len(df.data) = 0 \/ Len(df.columns) = 0

-----------------------------------------------------------------------------
(* The loaders *)

\* columns after df.rename(columns={'Question Number': 'question_num'})
rename(columns) ==
    [k \in DOMAIN columns |->
        IF columns[k] = "Question Number" THEN "question_num" ELSE columns[k]]

\* try/except around read_csv without the except clause
load_qa_data_no_except(file) ==
    LET df == read_csv(file) IN
    IF df.kind = "raise" THEN df
    ELSE IF "Question Number" \in Range(df.columns)
         THEN [df EXCEPT !.columns = rename(df.columns)]
    ELSE IF Len(df.columns) = 4
         THEN [df EXCEPT !.columns = <<"Section", "question_num", "Question", "Answer">>]
    ELSE IF Len(df.columns) = 3
         THEN [df EXCEPT !.columns = <<"question_num", "Question", "Answer">>]
    ELSE df

load_qa_data(file) ==
    LET df == read_csv(file) IN
    IF df.kind = "raise" THEN None
    ELSE IF "Question Number" \in Range(df.columns)
         THEN [df EXCEPT !.columns = rename(df.columns)]
    ELSE IF Len(df.columns) = 4
         THEN [df EXCEPT !.columns = <<"Section", "question_num", "Question", "Answer">>]
    ELSE IF Len(df.columns) = 3
         THEN [df EXCEPT !.columns = <<"question_num", "Question", "Answer">>]
    ELSE df

load_glossary_data(file) ==
    LET df == read_csv(file) IN
    IF df.kind = "raise" THEN None ELSE df

-----------------------------------------------------------------------------
(* Section filter / orderer *)

\* df[df['Section'].isin(selected_sections)]
isin_filter(df, selected_sections) ==
    LET p == IndexOf(df.columns, "Section") IN
    [df EXCEPT !.data = SelectSeq(df.data, LAMBDA r : r[p] \in Range(selected_sections))]

\* code of pd.Categorical(values, categories, ordered=True): the position of
\* the value among the categories, -1 (NaN) when it is not one of them
categorical_code(v, categories) ==
    IF v \in Range(categories) THEN IndexOf(categories, v) - 1 ELSE -1

\* ordering of two sort keys <<section_order, question_num>>; NaN sorts last
KeyLeq(a, b) ==
    IF a[1] # b[1]
    THEN (b[1] = -1) \/ (a[1] # -1 /\ a[1] < b[1])
    ELSE a[2] <= b[2]

\* insert x = <<key, row>> behind every element whose key is <= x's key
RECURSIVE InsertSorted(_, _)
InsertSorted(sorted, x) ==
    IF sorted = <<>> THEN <<x>>
    ELSE LET last == sorted[Len(sorted)] IN
         IF KeyLeq(last[1], x[1]) THEN Append(sorted, x)
         ELSE Append(InsertSorted(SubSeq(sorted, 1, Len(sorted) - 1), x), last)

RECURSIVE SortKeyed(_)
SortKeyed(keyed) ==
    IF keyed = <<>> THEN <<>>
    ELSE InsertSorted(SortKeyed(SubSeq(keyed, 1, Len(keyed) - 1)), keyed[Len(keyed)])

\* filtered_df with the section_order column added, sorted by
\* ['section_order', 'question_num'] (stable, lexicographic), the column dropped
sort_values(df, categories) ==
    LET ps == IndexOf(df.columns, "Section")
        pq == IndexOf(df.columns, "question_num")
        keyed == [k \in DOMAIN df.data |->
                    <<<<categorical_code(df.data[k][ps], categories), df.data[k][pq]>>,
                      df.data[k]>>]
        sorted == SortKeyed(keyed)
    IN [df EXCEPT !.data = [k \in DOMAIN sorted |-> sorted[k][2]]]

\* the filter with the rows left in file order
filter_unordered(df, selected_sections) ==
    IF selected_sections # <<>>
    THEN isin_filter(df, selected_sections)
    ELSE [kind |-> "df", columns |-> <<>>, data |-> <<>>]

\* the filter with an empty selection meaning "all sections"
filter_empty_shows_all(df, selected_sections) ==
    IF selected_sections # <<>>
    THEN sort_values(isin_filter(df, selected_sections), selected_sections)
    ELSE df

\* lines 143-155: the filtered and ordered dataframe
filter_and_order(df, selected_sections) ==
    IF selected_sections # <<>>
    THEN sort_values(isin_filter(df, selected_sections), selected_sections)
    ELSE [kind |-> "df", columns |-> <<>>, data |-> <<>>]

-----------------------------------------------------------------------------
(* Navigation cursor *)

\* a randint that leaves out its upper end, as randrange does
randint_exclusive(a, b) == a..(b - 1)

\* random.randint(a, b): any integer of a..b
randint(a, b) == a..b

\* the adjustment with > in place of >=
clamp_strict(current_index, n) ==
    IF current_index > n THEN n - 1 ELSE current_index

\* the adjustment going back to the first row
clamp_to_first(current_index, n) ==
    IF current_index >= n THEN 0 ELSE current_index

\* lines 177-179: adjust current_index if it is beyond the filtered results
clamp(current_index, n) ==
    IF current_index >= n THEN n - 1 ELSE current_index

\* The button handlers: the new current_index and whether st.rerun() is called.
\* lines 189-191
button_first(current_index, n) == {[index |-> 0, rerun |-> TRUE]}

\* lines 194-197
button_previous(current_index, n) ==
    IF current_index > 0
    THEN {[index |-> current_index - 1, rerun |-> TRUE]}
    ELSE {[index |-> current_index, rerun |-> FALSE]}

\* Next without the check against the last row
button_next_unbounded(current_index, n) ==
    {[index |-> current_index + 1, rerun |-> TRUE]}

\* Next without the st.rerun()
button_next_no_rerun(current_index, n) ==
    IF current_index < n - 1
    THEN {[index |-> current_index + 1, rerun |-> FALSE]}
    ELSE {[index |-> current_index, rerun |-> FALSE]}

\* lines 200-203
button_next(current_index, n) ==
    IF current_index < n - 1
    THEN {[index |-> current_index + 1, rerun |-> TRUE]}
    ELSE {[index |-> current_index, rerun |-> FALSE]}

\* lines 206-208
button_last(current_index, n) == {[index |-> n - 1, rerun |-> TRUE]}

\* lines 211-214
button_random(current_index, n) ==
    {[index |-> r, rerun |-> TRUE] : r \in randint(0, n - 1)}

Buttons == {"first", "previous", "next", "last", "random"}

\* lines 185-214: the outcomes of the button block for the button clicked
buttons(click, current_index, n) ==
    CASE click = "first" -> button_first(current_index, n)
      [] click = "previous" -> button_previous(current_index, n)
      [] click = "next" -> button_next(current_index, n)
      [] click = "last" -> button_last(current_index, n)
      [] click = "random" -> button_random(current_index, n)
      [] OTHER -> {[index |-> current_index, rerun |-> FALSE]}

\* filtered_df.iloc[i]: positions -n..-1 count from the end, others raise
iloc(df, i) ==
    LET n == Len(df.data) IN
    IF i \in 0..(n - 1) THEN [exc |-> "none", row |-> df.data[i + 1]]
    ELSE IF i \in (-n)..(-1) THEN [exc |-> "none", row |-> df.data[n + i + 1]]
    ELSE [exc |-> "IndexError", row |-> <<>>]

-----------------------------------------------------------------------------
(* The page *)

\* the Viva tab before anything is drawn on it
VivaBlank ==
    [error |-> FALSE,           \* st.error("Could not load viva data")
     filter_shown |-> FALSE,    \* the section multiselect is on the page
     options |-> <<>>,          \* its options
     info |-> <<>>,             \* <<len(filtered_df), len(df), len(selected), total_sections>>
     warning |-> FALSE,         \* st.warning("No questions to display...")
     nav |-> "none",            \* the five buttons: "none", "disabled", "enabled"
     clamped |-> FALSE,         \* line 179 ran in this pass
     progress |-> <<>>,         \* <<question shown, of how many>>
     read |-> <<>>,             \* <<position handed to filtered_df.iloc>>
     record |-> <<>>]           \* <<the row displayed>>

BlankScreen == [viva |-> VivaBlank, glossary |-> "none", exc |-> "none"]

\* st.session_state.get(key, default)
get(ss, key, default) == IF key \in DOMAIN ss THEN ss[key] ELSE default

\* st.multiselect(..., default=current_sections, key="section_filter"): the
\* widget's value is the user's selection once there is one, else the default
multiselect(ss, default) == get(ss, "section_filter", default)

\* the initialisation without its "not in st.session_state" guard
init_session_always(ss) == ("current_index" :> 0) @@ ss

\* lines 113-115: initialize session state
init_session(ss) ==
    IF "current_index" \notin DOMAIN ss THEN ("current_index" :> 0) @@ ss ELSE ss

Result(ss, out, rerun, exc) == [ss |-> ss, out |-> out, rerun |-> rerun, exc |-> exc]

\* lines 216-223: read the current row and display it
show_row(ss, out, df, filtered_df) ==
    LET r == iloc(filtered_df, ss.current_index)
        out1 == [out EXCEPT !.read = <<ss.current_index>>]
    IN IF r.exc # "none" THEN Result(ss, out1, FALSE, r.exc)
       ELSE IF ~HasColumn(df, "Question") \/ ~HasColumn(df, "Answer")
            THEN Result(ss, out1, FALSE, "KeyError")
       ELSE Result(ss, [out1 EXCEPT !.record = <<r.row>>], FALSE, "none")

\* lines 177-223: the active state
active_view(ss, out, click, df, filtered_df) ==
    LET n == Len(filtered_df.data)
        ss1 == [ss EXCEPT !.current_index = clamp(ss.current_index, n)]
        out1 == [out EXCEPT !.clamped = (ss.current_index >= n),
                            !.progress = <<ss1.current_index + 1, n>>,
                            !.nav = "enabled"]
    IN UNION {
         LET ss2 == [ss1 EXCEPT !.current_index = b.index] IN
         IF b.rerun THEN {Result(ss2, out1, TRUE, "none")}
         ELSE {show_row(ss2, out1, df, filtered_df)}
         : b \in buttons(click, ss1.current_index, n)}

\* lines 101-228: every outcome of one pass of viva_tab
viva_tab(ss, click) ==
    LET df == load_qa_data(viva_file) IN
    IF df.kind = "raise" THEN {Result(ss, VivaBlank, FALSE, "Exception")}
    ELSE IF df.kind = "None" \/ empty(df)
         THEN {Result(ss, [VivaBlank EXCEPT !.error = TRUE], FALSE, "none")}
    ELSE IF ~HasColumn(df, "Section")
         THEN {Result(ss, VivaBlank, FALSE, "KeyError")}
    ELSE
      LET total_sections == Len(unique(Column(df, "Section")))
          ss1 == init_session(ss)
          all_sections == unique(Column(df, "Section"))
          current_sections == get(ss1, "selected_sections", all_sections)
          selected_sections == multiselect(ss1, current_sections)
          ss2 == ("selected_sections" :> selected_sections)
                 @@ ("section_filter" :> selected_sections) @@ ss1
          filtered_df == filter_and_order(df, selected_sections)
          out == [VivaBlank EXCEPT
                    !.filter_shown = TRUE,
                    !.options = all_sections,
                    !.info = <<Len(filtered_df.data), Len(df.data),
                               Len(selected_sections), total_sections>>]
      IN IF Len(filtered_df.data) = 0
         THEN {Result(ss2, [out EXCEPT !.warning = TRUE, !.nav = "disabled"],
                      FALSE, "none")}
         ELSE active_view(ss2, out, click, df, filtered_df)

\* lines 230-294
glossary_tab ==
    LET df == load_glossary_data(glossary_file) IN
    IF df.kind = "df" /\ ~empty(df) THEN "table" ELSE "error"

\* lines 296-304: every outcome of one script pass.  An exception or st.rerun()
\* in viva_tab ends the pass before glossary_tab is called.
main(ss, click) ==
    {[ss |-> v.ss,
      rerun |-> v.rerun,
      screen |-> [viva |-> v.out,
                  glossary |-> IF v.rerun \/ v.exc # "none" THEN "none" ELSE glossary_tab,
                  exc |-> v.exc]]
     : v \in viva_tab(ss, click)}

-----------------------------------------------------------------------------
(* The state machine *)

Init ==
    /\ \/ viva_file = Unreadable
       \/ \E b \in FourBodies(MaxRows) : viva_file = File(NamedHeader, b)
       \/ \E b \in FourBodies(MaxRows - 1) : viva_file = File(FourHeader, b)
       \/ \E b \in ThreeBodies : viva_file = File(ThreeHeader, b)
       \/ \E b \in TwoBodies : viva_file = File(TwoHeader, b)
    /\ \/ glossary_file = Unreadable
       \/ \E b \in GlossaryBodies : glossary_file = File(<<"Term", "Definition">>, b)
    /\ session_state = <<>>
    /\ clicked = "none"
    /\ pc = "run"
    /\ screen = BlankScreen
    /\ last_event = "load"

\* one pass of the script
ScriptRun ==
    /\ pc = "run"
    /\ \E r \in main(session_state, clicked) :
         /\ session_state' = r.ss
         /\ screen' = r.screen
         /\ pc' = IF r.rerun THEN "run" ELSE "idle"
    /\ clicked' = "none"
    /\ UNCHANGED <<viva_file, glossary_file, last_event>>

\* the user adds a section to the multiselect (it goes to the end)
SelectSection ==
    /\ pc = "idle"
    /\ screen.viva.filter_shown
    /\ \E s \in Range(screen.viva.options) \ Range(session_state.section_filter) :
         session_state' =
            [session_state EXCEPT !.section_filter = Append(@, s)]
    /\ pc' = "run"
    /\ last_event' = "select"
    /\ UNCHANGED <<viva_file, glossary_file, clicked, screen>>

\* the user removes a section from the multiselect
DeselectSection ==
    /\ pc = "idle"
    /\ screen.viva.filter_shown
    /\ \E s \in Range(session_state.section_filter) :
         session_state' =
            [session_state EXCEPT !.section_filter = Remove(@, s)]
    /\ pc' = "run"
    /\ last_event' = "deselect"
    /\ UNCHANGED <<viva_file, glossary_file, clicked, screen>>

\* the user clicks a navigation button (a disabled button takes no click)
Click ==
    /\ pc = "idle"
    /\ screen.viva.nav = "enabled"
    /\ \E b \in Buttons : clicked' = b /\ last_event' = b
    /\ pc' = "run"
    /\ UNCHANGED <<viva_file, glossary_file, session_state, screen>>

Next == ScriptRun \/ SelectSection \/ DeselectSection \/ Click

Spec == Init /\ [][Next]_vars

-----------------------------------------------------------------------------
(* What the claims speak about *)

\* the loaded question data
DF == load_qa_data(viva_file)

\* the Q&A view gets as far as the section filter
VivaUsable == DF.kind = "df" /\ ~empty(DF) /\ HasColumn(DF, "Section")

HasIndex == "current_index" \in DOMAIN session_state

\* the selection the pending pass will read from the multiselect
PendingSelection ==
    multiselect(session_state,
                get(session_state, "selected_sections", unique(Column(DF, "Section"))))

\* the filtered sequence of the pending pass, and its length N
PendingFiltered == filter_and_order(DF, PendingSelection).data

PendingN == Len(PendingFiltered)

\* the filtered sequence of the pass that drew the screen
ShownFiltered == filter_and_order(DF, session_state.selected_sections).data

SectionOf(r) == r[IndexOf(DF.columns, "Section")]

NumberOf(r) == r[IndexOf(DF.columns, "question_num")]

-----------------------------------------------------------------------------
\* C1: whenever a pass reads a row of a non-empty filtered sequence of length
\* N, the current_index it hands to iloc satisfies 0 <= current_index < N, and
\* between passes the stored current_index of an active view is in that range.
C1_IndexInRange ==
    /\ screen.viva.read # <<>> =>
         /\ screen.viva.info[1] > 0
         /\ 0 <= screen.viva.read[1]
         /\ screen.viva.read[1] < screen.viva.info[1]
    /\ (pc = "idle" /\ screen.viva.info # <<>> /\ screen.viva.info[1] > 0) =>
         /\ screen.viva.read = <<session_state.current_index>>
         /\ session_state.current_index \in 0..(screen.viva.info[1] - 1)

\* a pass that read the last row of a longer sequence after a section change
C1_Witness ==
    /\ pc = "idle"
    /\ last_event = "deselect"
    /\ screen.viva.info[1] = 2
    /\ screen.viva.read = <<1>>
    /\ screen.viva.record # <<>>

\* C2: a pass that follows a section-selection change with new length N > 0
\* and stored current_index >= N sets current_index to exactly N-1, reads the
\* row at N-1 and raises nothing (also when the selection was empty before).
C2_ClampToLast ==
    [][(/\ pc = "run"
        /\ clicked = "none"
        /\ VivaUsable
        /\ HasIndex
        /\ PendingN > 0
        /\ session_state.current_index >= PendingN)
       => /\ session_state'.current_index = PendingN - 1
          /\ screen'.viva.clamped
          /\ screen'.viva.read = <<PendingN - 1>>
          /\ screen'.viva.record = <<PendingFiltered[PendingN]>>
          /\ screen'.exc = "none"
          /\ pc' = "idle"]_vars

\* the clamp ran in a pass that re-selected a section after an empty selection
C2_Witness ==
    /\ pc = "idle"
    /\ last_event = "select"
    /\ Len(session_state.selected_sections) = 1
    /\ screen.viva.clamped
    /\ screen.viva.record # <<>>

\* C3: in the active state with index i and length N the pass of a click sets
\* current_index to: first -> 0, previous -> max(i-1, 0), next -> min(i+1, N-1),
\* last -> N-1.
C3_Navigation ==
    [][(pc = "run" /\ clicked \in Buttons \ {"random"})
       => LET i == session_state.current_index
              n == PendingN
          IN /\ n > 0
             /\ i \in 0..(n - 1)
             /\ clicked = "first" => session_state'.current_index = 0
             /\ clicked = "previous" => session_state'.current_index = Max(i - 1, 0)
             /\ clicked = "next" => session_state'.current_index = Min(i + 1, n - 1)
             /\ clicked = "last" => session_state'.current_index = n - 1]_vars

\* next was clicked and the cursor is on the last of three rows
C3_Witness ==
    /\ pc = "idle"
    /\ last_event = "next"
    /\ screen.viva.info[1] = 3
    /\ session_state.current_index = 2
    /\ screen.viva.record # <<>>

\* the values of current_index the pending pass can leave behind
PendingOutcomes == {r.ss.current_index : r \in main(session_state, clicked)}

\* C4: the pass of a random click can set current_index to every value of
\* 0..N-1 and to no other value; with N = 1 it sets it to 0.
C4_Random ==
    (pc = "run" /\ clicked = "random")
    => /\ PendingN > 0
       /\ PendingOutcomes = 0..(PendingN - 1)
       /\ PendingN = 1 => PendingOutcomes = {0}

\* a random click on three rows moved the cursor from the first to the last
C4_Witness ==
    /\ pc = "idle"
    /\ last_event = "random"
    /\ screen.viva.info[1] = 3
    /\ screen.viva.read = <<2>>


\* the rows of the example: (SectionA,1), (SectionA,2), (SectionB,1)
ExampleBody ==
    <<<<"SectionA", 1, 1, 1>>, <<"SectionA", 2, 2, 2>>, <<"SectionB", 1, 3, 3>>>>

\* C5: for a non-empty selection S the filtered sequence holds exactly the
\* rows whose section is in S, ordered by the position of the section in S and
\* then by ascending question number; the example rows with S = [B, A] come
\* out as (B,1), (A,1), (A,2).
C5_FilterAndOrder ==
    (VivaUsable /\ pc = "idle" /\ session_state.selected_sections # <<>>)
    => LET S == session_state.selected_sections
           F == ShownFiltered
           kept == {k \in DOMAIN DF.data : SectionOf(DF.data[k]) \in Range(S)}
       IN /\ Len(F) = Cardinality(kept)
          /\ \A k \in kept : \E j \in DOMAIN F : F[j] = DF.data[k]
          /\ \A j \in DOMAIN F : SectionOf(F[j]) \in Range(S)
          /\ \A i, j \in DOMAIN F :
               i < j =>
                 \/ IndexOf(S, SectionOf(F[i])) < IndexOf(S, SectionOf(F[j]))
                 \/ /\ SectionOf(F[i]) = SectionOf(F[j])
                    /\ NumberOf(F[i]) <= NumberOf(F[j])
          /\ screen.viva.info[1] = Len(F)
          /\ screen.viva.record = <<F[session_state.current_index + 1]>>
          /\ (viva_file.body = ExampleBody /\ S = <<"SectionB", "SectionA">>)
               => F = <<ExampleBody[3], ExampleBody[1], ExampleBody[2]>>

\* the example: SectionB re-selected before SectionA, its first row on display
C5_Witness ==
    /\ pc = "idle"
    /\ viva_file.body = ExampleBody
    /\ session_state.selected_sections = <<"SectionB", "SectionA">>
    /\ session_state.current_index = 0
    /\ screen.viva.record = <<ExampleBody[3]>>

\* C6: an empty selection gives an empty filtered sequence; a pass over an
\* empty filtered sequence shows the warning, no record and disabled buttons
\* and leaves current_index alone; no button can be clicked while they are
\* disabled; the pass after a section is selected again shows a record.
C6_EmptySelection ==
    [][/\ (pc = "run" /\ VivaUsable /\ PendingSelection = <<>>)
          => /\ PendingN = 0
             /\ screen'.viva.info[1] = 0
             /\ screen'.viva.warning
             /\ screen'.viva.record = <<>>
             /\ screen'.viva.read = <<>>
             /\ screen'.viva.nav = "disabled"
             /\ screen'.exc = "none"
             /\ pc' = "idle"
             /\ HasIndex => session_state'.current_index = session_state.current_index
       /\ (pc = "run" /\ VivaUsable /\ PendingN = 0)
          => screen'.viva.warning /\ screen'.viva.nav = "disabled"
       /\ (pc = "idle" /\ screen.viva.nav # "enabled")
          => clicked' = "none" /\ clicked = "none"
       /\ (pc = "run" /\ VivaUsable /\ screen.viva.warning /\ PendingSelection # <<>>)
          => /\ ~screen'.viva.warning
             /\ screen'.viva.nav = "enabled"
             /\ screen'.viva.record # <<>>
             /\ pc' = "idle"]_vars

\* a section was selected again after the selection had been empty
C6_Witness ==
    /\ pc = "idle"
    /\ last_event = "select"
    /\ Len(session_state.selected_sections) = 1
    /\ screen.viva.record # <<>>
    /\ ~screen.viva.warning

\* C7: a question file with exactly three columns is rendered as one implicit
\* section: the pass raises nothing and shows a record.
C7_ThreeColumns ==
    (pc = "idle" /\ viva_file.readable /\ viva_file.header = ThreeHeader
        /\ viva_file.body # <<>>)
    => /\ screen.exc = "none"
       /\ screen.viva.record # <<>>

\* C8: an unreadable file makes the loader return None, it raises nothing; the
\* tab of that file shows its error and the other tab is drawn in the same pass.
C8_LoadFailure ==
    /\ ~viva_file.readable =>
         /\ load_qa_data(viva_file) = None
         /\ pc = "idle" =>
              /\ screen.exc = "none"
              /\ screen.viva.error
              /\ screen.viva.record = <<>>
              /\ screen.viva.info = <<>>
              /\ screen.glossary = glossary_tab
              /\ screen.glossary # "none"
    /\ ~glossary_file.readable =>
         /\ load_glossary_data(glossary_file) = None
         /\ (pc = "idle" /\ VivaUsable) =>
              /\ screen.exc = "none"
              /\ screen.glossary = "error"
              /\ ~screen.viva.error
              /\ screen.viva.info # <<>>
              /\ session_state.selected_sections # <<>> => screen.viva.record # <<>>

\* the question file failed to load and the glossary table is on the page
C8_Witness ==
    /\ pc = "idle"
    /\ ~viva_file.readable
    /\ screen.viva.error
    /\ screen.glossary = "table"

\* C9: a pass that shows a record shows the progress indicator of the same
\* index, (current_index+1)/N; and when the page is at rest after a navigation
\* click it shows the record at the stored current_index.
C9_AtomicRedraw ==
    /\ screen.viva.record # <<>> =>
         /\ screen.viva.progress = <<screen.viva.read[1] + 1, screen.viva.info[1]>>
         /\ screen.viva.read[1] = session_state.current_index
         /\ screen.viva.record = <<ShownFiltered[session_state.current_index + 1]>>
    /\ (pc = "idle" /\ last_event \in Buttons) =>
         /\ screen.viva.record # <<>>
         /\ screen.viva.progress = <<session_state.current_index + 1, screen.viva.info[1]>>
    /\ (pc = "run" /\ clicked = "none" /\ last_event \in Buttons) =>
         /\ screen.viva.record = <<>>
         /\ screen.viva.progress # <<>>

\* the page at rest after next moved the cursor to the second row
C9_Witness ==
    /\ pc = "idle"
    /\ last_event = "next"
    /\ session_state.current_index = 1
    /\ screen.viva.progress = <<2, 3>>
    /\ screen.viva.record # <<>>

\* C10: the pass after a section-selection change leaves a stored
\* current_index < N (N > 0) as it is; current_index changes only by the
\* initialisation to 0, by the clamp to N-1 and in the pass of a button click.
C10_CursorFrame ==
    [][/\ (/\ pc = "run"
           /\ clicked = "none"
           /\ VivaUsable
           /\ HasIndex
           /\ PendingN > 0
           /\ session_state.current_index < PendingN)
          => /\ session_state'.current_index = session_state.current_index
             /\ ~screen'.viva.clamped
       /\ (~HasIndex /\ "current_index" \in DOMAIN session_state')
          => pc = "run" /\ session_state'.current_index = 0
       /\ (HasIndex /\ session_state'.current_index # session_state.current_index)
          => /\ pc = "run"
             /\ \/ clicked \in Buttons
                \/ /\ session_state.current_index >= PendingN
                   /\ session_state'.current_index = PendingN - 1
       /\ HasIndex => "current_index" \in DOMAIN session_state']_vars

\* a section was removed and the cursor stayed on position 1, unclamped
C10_Witness ==
    /\ pc = "idle"
    /\ last_event = "deselect"
    /\ ~screen.viva.clamped
    /\ session_state.current_index = 1
    /\ session_state.selected_sections = <<"SectionB">>
    /\ screen.viva.record # <<>>

=============================================================================
